---- MODULE Spec2Model ----
(***************************************************************************)
(* The aggregation-risk scorer of the alpha-synuclein viewer (src/app.py): *)
(* the AggregationPredictor object shared by every script run, and its     *)
(* operations extract_features, calculate_aggregation_risk,                *)
(* get_high_risk_regions and get_color_map.                                *)
(*                                                                         *)
(* Numbers.  The code computes in floating point on table values with at   *)
(* most two decimals, means over 1..5 values and k/5 motif decays.  The    *)
(* model computes the same expressions exactly, as integers counting       *)
(* 1/6000ths (Unit per 1.0): every value the code can form is a multiple   *)
(* of 1/6000, so no division below rounds.                                 *)
(*                                                                         *)
(* Characters are one-character strings; a character outside ASCII is      *)
(* written by its code point ("U+00DF").  Positions are 0-based, as in the *)
(* code.                                                                   *)
(***************************************************************************)
EXTENDS Integers, Sequences, FiniteSets, TLC

VARIABLES
    hydrophobicity,      \* self.hydrophobicity
    charge,              \* self.charge
    beta_propensity,     \* self.beta_propensity
    aggregation_motifs,  \* self.aggregation_motifs
    alpha_syn_sequence,  \* self.alpha_syn_sequence
    calls                \* per caller: the invocation in progress and its locals

predictorVars == <<hydrophobicity, charge, beta_propensity, aggregation_motifs,
                   alpha_syn_sequence>>
vars == <<hydrophobicity, charge, beta_propensity, aggregation_motifs,
          alpha_syn_sequence, calls>>

----------------------------------------------------------------------------
(* Bounds of the model *)

\* sequences handed to the scorer are concatenations of at most MaxBlocks blocks
MaxBlocks == 2
\* score lists handed to get_color_map directly have at most MaxScores entries
MaxScores == 2
\* callers sharing the cached predictor in the concurrent specification
NumCallers == 2

----------------------------------------------------------------------------
(* Arithmetic *)

Unit == 100 * 60
Real(x) == x * Unit
Hundredths(x) == x * (Unit \div 100)

Max(a, b) == IF a >= b THEN a ELSE b
Min(a, b) == IF a <= b THEN a ELSE b
Abs(a) == IF a < 0 THEN -a ELSE a

\* s[i] and s[a:b] with Python's 0-based indices
At(s, i) == s[i + 1]
Slice(s, a, b) == SubSeq(s, a + 1, b)
\* range(a, b)
Range(a, b) == a .. (b - 1)

\* sum(s), summed by halves
RECURSIVE SumSeq(_)
SumSeq(s) ==
    IF Len(s) = 0 THEN 0
    ELSE IF Len(s) = 1 THEN s[1]
    ELSE SumSeq(SubSeq(s, 1, Len(s) \div 2)) + SumSeq(SubSeq(s, (Len(s) \div 2) + 1, Len(s)))

\* np.mean of a non-empty list
Mean(s) == SumSeq(s) \div Len(s)

\* the concatenation of a list of lists, joined by halves
RECURSIVE Concat(_)
Concat(ss) ==
    IF Len(ss) = 0 THEN <<>>
    ELSE IF Len(ss) = 1 THEN ss[1]
    ELSE Concat(SubSeq(ss, 1, Len(ss) \div 2)) \o Concat(SubSeq(ss, (Len(ss) \div 2) + 1, Len(ss)))

----------------------------------------------------------------------------
(* AggregationPredictor.__init__ *)

HydrophobicityTable ==
    "A" :> 180 @@ "R" :> -450 @@ "N" :> -350 @@ "D" :> -350 @@ "C" :> 250 @@
    "Q" :> -350 @@ "E" :> -350 @@ "G" :> -40 @@ "H" :> -320 @@ "I" :> 450 @@
    "L" :> 380 @@ "K" :> -390 @@ "M" :> 190 @@ "F" :> 280 @@ "P" :> -160 @@
    "S" :> -80 @@ "T" :> -70 @@ "W" :> -90 @@ "Y" :> -130 @@ "V" :> 420

ChargeTable ==
    "A" :> 0 @@ "R" :> 100 @@ "N" :> 0 @@ "D" :> -100 @@ "C" :> 0 @@ "Q" :> 0 @@
    "E" :> -100 @@ "G" :> 0 @@ "H" :> 50 @@ "I" :> 0 @@ "L" :> 0 @@ "K" :> 100 @@
    "M" :> 0 @@ "F" :> 0 @@ "P" :> 0 @@ "S" :> 0 @@ "T" :> 0 @@ "W" :> 0 @@
    "Y" :> 0 @@ "V" :> 0

BetaPropensityTable ==
    "A" :> 83 @@ "R" :> 93 @@ "N" :> 89 @@ "D" :> 54 @@ "C" :> 119 @@
    "Q" :> 110 @@ "E" :> 37 @@ "G" :> 75 @@ "H" :> 87 @@ "I" :> 160 @@
    "L" :> 130 @@ "K" :> 74 @@ "M" :> 105 @@ "F" :> 138 @@ "P" :> 55 @@
    "S" :> 75 @@ "T" :> 119 @@ "W" :> 137 @@ "Y" :> 147 @@ "V" :> 170

AggregationMotifs ==
    << <<"N", "A", "C">>,
       <<"K", "T", "K", "E">>,
       <<"G", "V", "L", "Y">>,
       <<"V", "L", "Y", "V", "G">>,
       <<"G", "A", "V", "V", "T">> >>

AlphaSynSequence ==
    << "M", "D", "V", "F", "M", "K", "G", "L", "S", "K", "A", "K", "E", "G",
       "V", "V", "A", "A", "A", "E", "K", "T", "K", "Q", "G", "V", "A", "E",
       "A", "A", "G", "K", "T", "K", "E", "G", "V", "L", "Y", "V", "G", "S",
       "K", "T", "K", "E", "G", "V", "V", "H", "G", "V", "A", "T", "V", "A",
       "E", "K", "T", "K", "E", "Q", "V", "T", "N", "V", "G", "G", "A", "V",
       "V", "T", "G", "V", "T", "A", "V", "A", "Q", "K", "T", "V", "E", "G",
       "A", "G", "S", "I", "A", "A", "A", "T", "G", "F", "V", "K", "K", "D",
       "Q", "L", "G", "K", "N", "E", "E", "G", "A", "P", "Q", "E", "G", "I",
       "L", "E", "D", "M", "P", "V", "D", "P", "D", "N", "E", "A", "Y", "E",
       "M", "P", "S", "E", "E", "G", "Y", "Q", "D", "Y", "E", "P", "E", "A" >>

\* the predictor as constructed
NewPredictor ==
    [ hydrophobicity     |-> [aa \in DOMAIN HydrophobicityTable |->
                                 Hundredths(HydrophobicityTable[aa])],
      charge             |-> [aa \in DOMAIN ChargeTable |->
                                 Hundredths(ChargeTable[aa])],
      beta_propensity    |-> [aa \in DOMAIN BetaPropensityTable |->
                                 Hundredths(BetaPropensityTable[aa])],
      aggregation_motifs |-> AggregationMotifs,
      alpha_syn_sequence |-> AlphaSynSequence ]

\* the shared predictor object, as the operations read it
Self ==
    [ hydrophobicity     |-> hydrophobicity,
      charge             |-> charge,
      beta_propensity    |-> beta_propensity,
      aggregation_motifs |-> aggregation_motifs,
      alpha_syn_sequence |-> alpha_syn_sequence ]

----------------------------------------------------------------------------
(* str.upper, on the characters the model hands in *)

LowerToUpper ==
    "a" :> "A" @@ "b" :> "B" @@ "c" :> "C" @@ "d" :> "D" @@ "e" :> "E" @@
    "f" :> "F" @@ "g" :> "G" @@ "h" :> "H" @@ "i" :> "I" @@ "j" :> "J" @@
    "k" :> "K" @@ "l" :> "L" @@ "m" :> "M" @@ "n" :> "N" @@ "o" :> "O" @@
    "p" :> "P" @@ "q" :> "Q" @@ "r" :> "R" @@ "s" :> "S" @@ "t" :> "T" @@
    "u" :> "U" @@ "v" :> "V" @@ "w" :> "W" @@ "x" :> "X" @@ "y" :> "Y" @@
    "z" :> "Z"

\* U+00DF (sharp s) upper-cases to the two characters "SS", U+017F (long s) to "S";
\* a character with no upper-case form is kept.
UpperChar(c) ==
    IF c \in DOMAIN LowerToUpper THEN <<LowerToUpper[c]>>
    ELSE IF c = "U+00DF" THEN <<"S", "S">>
    ELSE IF c = "U+017F" THEN <<"S">>
    ELSE <<c>>

upper(sequence) == Concat([k \in 1..Len(sequence) |-> UpperChar(sequence[k])])

\* dict.get(aa, 0)
Get(table, aa) == IF aa \in DOMAIN table THEN table[aa] ELSE 0

----------------------------------------------------------------------------
(* extract_features *)

window == 5

WindowStart(i) == Max(0, i - (window \div 2))
WindowEnd(seq, i) == Min(Len(seq), i + (window \div 2) + 1)

\* the list comprehension [f(sequence[j]) for j in range(start, end)]
WindowValues(table, seq, i) ==
    [k \in 1..(WindowEnd(seq, i) - WindowStart(i)) |->
        Get(table, At(seq, WindowStart(i) + k - 1))]

\* LocalHydro with the window padded with zeros to its full width
LocalHydroPadded(self, seq, i) ==
    SumSeq(WindowValues(self.hydrophobicity, seq, i)) \div window

LocalHydro(self, seq, i) == Mean(WindowValues(self.hydrophobicity, seq, i))

LocalCharge(self, seq, i) ==
    SumSeq([k \in 1..(WindowEnd(seq, i) - WindowStart(i)) |->
               Abs(WindowValues(self.charge, seq, i)[k])])

\* MotifDecay without the division by 5
MotifDecayUnscaled(i, j, motif) ==
    LET distance == Abs(i - (j + (Len(motif) \div 2)))
    IN  Max(0, 5 - distance) * Unit

\* MotifDecay measuring the distance from the start of the occurrence
MotifDecayFromStart(i, j, motif) ==
    LET distance == Abs(i - j)
    IN  (Max(0, 5 - distance) * Unit) \div 5

\* max(0, 5 - distance) / 5 for the occurrence of motif at j
MotifDecay(i, j, motif) ==
    LET distance == Abs(i - (j + (Len(motif) \div 2)))
    IN  (Max(0, 5 - distance) * Unit) \div 5

\* the j of range(len(sequence) - len(motif) + 1) with sequence[j:j+len(motif)] == motif
MotifOccurrences(seq, motif) ==
    {j \in Range(0, Len(seq) - Len(motif) + 1) : Slice(seq, j, j + Len(motif)) = motif}

\* what the inner loop adds to motif_score for one motif: one decay per occurrence
RECURSIVE MotifDecaySum(_, _, _)
MotifDecaySum(occurrences, motif, i) ==
    IF occurrences = {} THEN 0
    ELSE LET j == CHOOSE o \in occurrences : TRUE
         IN  MotifDecay(i, j, motif) + MotifDecaySum(occurrences \ {j}, motif, i)

\* for motif in self.aggregation_motifs
MotifScore(motifs, seq, i) ==
    SumSeq([m \in 1..Len(motifs) |->
               MotifDecaySum(MotifOccurrences(seq, motifs[m]), motifs[m], i)])

extract_features(self, sequence) ==
    LET seq == upper(sequence)
    IN  [ hydrophobicity       |-> [k \in 1..Len(seq) |-> Get(self.hydrophobicity, seq[k])],
          charge               |-> [k \in 1..Len(seq) |-> Get(self.charge, seq[k])],
          beta_propensity      |-> [k \in 1..Len(seq) |-> Get(self.beta_propensity, seq[k])],
          local_hydrophobicity |-> [k \in 1..Len(seq) |-> LocalHydro(self, seq, k - 1)],
          charge_clustering    |-> [k \in 1..Len(seq) |-> LocalCharge(self, seq, k - 1)],
          motif_score          |-> [k \in 1..Len(seq) |->
                                       MotifScore(self.aggregation_motifs, seq, k - 1)] ]

NoFeatures ==
    [ hydrophobicity |-> <<>>, charge |-> <<>>, beta_propensity |-> <<>>,
      local_hydrophobicity |-> <<>>, charge_clustering |-> <<>>, motif_score |-> <<>> ]

----------------------------------------------------------------------------
(* calculate_aggregation_risk *)

\* RiskAt with min(100, .) left out
RiskAtNoCeiling(features, i) ==
    LET hydro_risk   == Max(0, At(features.hydrophobicity, i)) * 10
        beta_risk    == At(features.beta_propensity, i) * 15
        cluster_risk == Max(0, At(features.local_hydrophobicity, i)) * 8
        charge_risk  == Max(0, Real(3) - At(features.charge_clustering, i)) * 5
        motif_risk   == At(features.motif_score, i) * 25
        total_risk   == hydro_risk + beta_risk + cluster_risk + charge_risk + motif_risk
    IN  Max(0, total_risk)

\* RiskAt with each term normalised to 0-100 and the sum left as it is
RiskAtClampedTerms(features, i) ==
    LET hydro_risk   == Min(Real(100), Max(0, At(features.hydrophobicity, i) * 10))
        beta_risk    == Min(Real(100), Max(0, At(features.beta_propensity, i) * 15))
        cluster_risk == Min(Real(100), Max(0, At(features.local_hydrophobicity, i) * 8))
        charge_risk  == Min(Real(100), Max(0, (Real(3) - At(features.charge_clustering, i)) * 5))
        motif_risk   == Min(Real(100), Max(0, At(features.motif_score, i) * 25))
    IN  hydro_risk + beta_risk + cluster_risk + charge_risk + motif_risk

\* the body of the loop, for position i
RiskAt(features, i) ==
    LET hydro_risk   == Max(0, At(features.hydrophobicity, i)) * 10
        beta_risk    == At(features.beta_propensity, i) * 15
        cluster_risk == Max(0, At(features.local_hydrophobicity, i)) * 8
        charge_risk  == Max(0, Real(3) - At(features.charge_clustering, i)) * 5
        motif_risk   == At(features.motif_score, i) * 25
        total_risk   == hydro_risk + beta_risk + cluster_risk + charge_risk + motif_risk
    IN  Min(Real(100), Max(0, total_risk))

\* for i in range(len(sequence)): the positions the loop visits
RiskPositions(features, sequence) == Range(0, Len(sequence))

\* features[...][i] raises IndexError for an i the feature lists do not have
RiskRaises(features, sequence) ==
    \E i \in RiskPositions(features, sequence) : i >= Len(features.hydrophobicity)

RiskScores(features, sequence) ==
    IF RiskRaises(features, sequence) THEN <<>>
    ELSE LET n == Cardinality(RiskPositions(features, sequence))
         IN  [k \in 1..n |-> RiskAt(features, k - 1)]

calculate_aggregation_risk(self, sequence) ==
    RiskScores(extract_features(self, sequence), sequence)

----------------------------------------------------------------------------
(* get_high_risk_regions *)

\* start = None
None == -1

\* the loop body of the scan with the region opened on score > threshold only
ScanStepStrict(scan, risk_scores, threshold, i) ==
    LET score == At(risk_scores, i)
    IN  IF score > threshold /\ scan.start = None
           THEN [start |-> i, regions |-> scan.regions]
        ELSE IF score < threshold /\ scan.start # None
           THEN [start |-> None, regions |-> Append(scan.regions, <<scan.start, i - 1>>)]
        ELSE scan

\* the body of: for i, score in enumerate(risk_scores)
ScanStep(scan, risk_scores, threshold, i) ==
    LET score == At(risk_scores, i)
    IN  IF score >= threshold /\ scan.start = None
           THEN [start |-> i, regions |-> scan.regions]
        ELSE IF score < threshold /\ scan.start # None
           THEN [start |-> None, regions |-> Append(scan.regions, <<scan.start, i - 1>>)]
        ELSE scan

\* the loop over the positions lo .. hi-1 in order, from the state scan: the first
\* half of the positions, then the second from where the first ended
RECURSIVE ScanFrom(_, _, _, _, _)
ScanFrom(risk_scores, threshold, lo, hi, scan) ==
    IF hi <= lo THEN scan
    ELSE IF hi = lo + 1 THEN ScanStep(scan, risk_scores, threshold, lo)
    ELSE LET mid == (lo + hi) \div 2
         IN  CHOOSE after \in
                {ScanFrom(risk_scores, threshold, mid, hi, first) :
                    first \in {ScanFrom(risk_scores, threshold, lo, mid, scan)}} : TRUE

\* regions = [], start = None
ScanStart == [start |-> None, regions |-> <<>>]

\* ScanRegions closing a region at the end whether or not one is open
ScanRegionsAlwaysClosing(risk_scores, threshold, n) ==
    LET scan == ScanFrom(risk_scores, threshold, 0, Len(risk_scores), ScanStart)
    IN  Append(scan.regions, <<scan.start, n - 1>>)

\* the scan and the closing of a region that extends to the end; n is len(sequence)
ScanRegions(risk_scores, threshold, n) ==
    LET scan == ScanFrom(risk_scores, threshold, 0, Len(risk_scores), ScanStart)
    IN  IF scan.start # None
           THEN Append(scan.regions, <<scan.start, n - 1>>)
           ELSE scan.regions

get_high_risk_regions(self, sequence, threshold) ==
    ScanRegions(calculate_aggregation_risk(self, sequence), threshold, Len(sequence))

----------------------------------------------------------------------------
(* get_color_map *)

\* ColorOf with the first breakpoint taken into the lowest bucket
ColorOfInclusive(score) ==
    IF score <= Real(20) THEN "#00FF00"
    ELSE IF score < Real(40) THEN "#80FF00"
    ELSE IF score < Real(60) THEN "#FFFF00"
    ELSE IF score < Real(80) THEN "#FF8000"
    ELSE "#FF0000"

ColorOf(score) ==
    IF score < Real(20) THEN "#00FF00"
    ELSE IF score < Real(40) THEN "#80FF00"
    ELSE IF score < Real(60) THEN "#FFFF00"
    ELSE IF score < Real(80) THEN "#FF8000"
    ELSE "#FF0000"

get_color_map(risk_scores) == [k \in 1..Len(risk_scores) |-> ColorOf(risk_scores[k])]

----------------------------------------------------------------------------
(* The callers' inputs *)

Blocks ==
    { <<"K", "T", "K", "E">>,
      <<"n", "a", "c">>,
      <<"G", "V", "L", "Y", "V", "G">>,
      <<"G", "A", "V", "V", "T">>,
      <<"V", "I">>,
      <<"K", "K">>,
      <<"X", "E", "E">>,
      <<"U+00DF">>,
      <<"U+017F">> }

BlockLists == UNION {[1..k -> Blocks] : k \in 0..MaxBlocks}

\* the first 63 residues of the reference sequence
ReferencePrefix == SubSeq(AlphaSynSequence, 1, 63)

Sequences == {Concat(bs) : bs \in BlockLists} \cup {ReferencePrefix}

\* the slider of the page: 30..90 in steps of 10
SliderThresholds == {Real(10 * k) : k \in 3..9}

\* thresholds of a direct call: the default, the ends of the scale, the slider's ends
Thresholds == {Real(0), Real(30), Real(60), Real(90), Real(100)}

ScoreSamples ==
    { 0, Real(20) - 1, Real(20), Real(40) - 1, Real(40), Real(60) - 1, Real(60),
      Real(80) - 1, Real(80), Real(100) }

ScoreLists == UNION {[1..k -> ScoreSamples] : k \in 0..MaxScores}

\* the inputs of the concurrent callers
ConcSequences == { <<"K", "T", "K", "E">>, <<"n", "a", "c", "U+00DF">>, <<"V", "I", "X">> }
ConcThresholds == {Real(60), Real(90)}
ConcScoreLists == { <<Real(20) - 1, Real(20)>>, <<Real(100), Real(60)>> }

Callers == 1..NumCallers
Main == 1

----------------------------------------------------------------------------
(* State *)

IdleCall ==
    [ pc          |-> "idle",
      op          |-> "none",
      sequence    |-> <<>>,
      threshold   |-> 0,
      features    |-> NoFeatures,
      risk_scores |-> <<>>,
      regions     |-> <<>>,
      colors      |-> <<>>,
      raised      |-> FALSE ]

Init ==
    /\ hydrophobicity = NewPredictor.hydrophobicity
    /\ charge = NewPredictor.charge
    /\ beta_propensity = NewPredictor.beta_propensity
    /\ aggregation_motifs = NewPredictor.aggregation_motifs
    /\ alpha_syn_sequence = NewPredictor.alpha_syn_sequence
    /\ calls = [c \in Callers |-> IdleCall]

\* the call of caller c has returned (or raised) and its results are in calls[c]
Returned(c) == calls[c].pc = "return"

----------------------------------------------------------------------------
(* One caller, each operation as one step *)

ExtractFeatures(sequence) ==
    /\ calls[Main].pc = "idle"
    /\ calls' = [calls EXCEPT ![Main] =
                    [IdleCall EXCEPT !.pc = "return",
                                     !.op = "extract_features",
                                     !.sequence = sequence,
                                     !.features = extract_features(Self, sequence)]]
    /\ UNCHANGED predictorVars

CalculateAggregationRisk(sequence) ==
    /\ calls[Main].pc = "idle"
    /\ LET features == extract_features(Self, sequence)
       IN  calls' = [calls EXCEPT ![Main] =
                        [IdleCall EXCEPT !.pc = "return",
                                         !.op = "calculate_aggregation_risk",
                                         !.sequence = sequence,
                                         !.features = features,
                                         !.risk_scores = RiskScores(features, sequence),
                                         !.raised = RiskRaises(features, sequence)]]
    /\ UNCHANGED predictorVars

GetHighRiskRegions(sequence, threshold) ==
    /\ calls[Main].pc = "idle"
    /\ LET features == extract_features(Self, sequence)
           risk_scores == RiskScores(features, sequence)
           raised == RiskRaises(features, sequence)
       IN  calls' = [calls EXCEPT ![Main] =
                        [IdleCall EXCEPT !.pc = "return",
                                         !.op = "get_high_risk_regions",
                                         !.sequence = sequence,
                                         !.threshold = threshold,
                                         !.features = features,
                                         !.risk_scores = risk_scores,
                                         !.regions = IF raised THEN <<>>
                                                     ELSE ScanRegions(risk_scores, threshold,
                                                                      Len(sequence)),
                                         !.raised = raised]]
    /\ UNCHANGED predictorVars

GetColorMap(risk_scores) ==
    /\ calls[Main].pc = "idle"
    /\ calls' = [calls EXCEPT ![Main] =
                    [IdleCall EXCEPT !.pc = "return",
                                     !.op = "get_color_map",
                                     !.risk_scores = risk_scores,
                                     !.colors = get_color_map(risk_scores)]]
    /\ UNCHANGED predictorVars

\* the page's analysis: the reference sequence, scored and cut at the slider's threshold
ScriptRun(risk_threshold) ==
    /\ calls[Main].pc = "idle"
    /\ LET sequence == alpha_syn_sequence
           features == extract_features(Self, sequence)
           risk_scores == RiskScores(features, sequence)
           raised == RiskRaises(features, sequence)
       IN  calls' = [calls EXCEPT ![Main] =
                        [IdleCall EXCEPT !.pc = "return",
                                         !.op = "get_high_risk_regions",
                                         !.sequence = sequence,
                                         !.threshold = risk_threshold,
                                         !.features = features,
                                         !.risk_scores = risk_scores,
                                         !.regions = IF raised THEN <<>>
                                                     ELSE ScanRegions(risk_scores,
                                                                      risk_threshold,
                                                                      Len(sequence)),
                                         !.raised = raised]]
    /\ UNCHANGED predictorVars

\* the viewer's colouring: the reference sequence's scores, mapped to colours
CreateViewer ==
    /\ calls[Main].pc = "idle"
    /\ LET sequence == alpha_syn_sequence
           features == extract_features(Self, sequence)
           risk_scores == RiskScores(features, sequence)
           raised == RiskRaises(features, sequence)
       IN  calls' = [calls EXCEPT ![Main] =
                        [IdleCall EXCEPT !.pc = "return",
                                         !.op = "get_color_map",
                                         !.risk_scores = risk_scores,
                                         !.colors = IF raised THEN <<>>
                                                    ELSE get_color_map(risk_scores),
                                         !.raised = raised]]
    /\ UNCHANGED predictorVars

\* the caller takes the result; the call's locals are gone
Return ==
    /\ calls[Main].pc = "return"
    /\ calls' = [calls EXCEPT ![Main] = IdleCall]
    /\ UNCHANGED predictorVars

Next ==
    \/ \E sequence \in Sequences : ExtractFeatures(sequence)
    \/ \E sequence \in Sequences : CalculateAggregationRisk(sequence)
    \/ \E sequence \in Sequences, threshold \in Thresholds :
          GetHighRiskRegions(sequence, threshold)
    \/ \E risk_scores \in ScoreLists : GetColorMap(risk_scores)
    \/ \E risk_threshold \in SliderThresholds : ScriptRun(risk_threshold)
    \/ CreateViewer
    \/ Return

Spec == Init /\ [][Next]_vars

----------------------------------------------------------------------------
(* Several callers on the shared predictor, their calls interleaved: a call   *)
(* reads the predictor when it extracts the features, and its later steps work *)
(* on its own locals.                                                          *)

BeginCalculateAggregationRisk(c, sequence) ==
    /\ calls[c].pc = "idle"
    /\ calls' = [calls EXCEPT ![c] =
                    [IdleCall EXCEPT !.pc = "extract",
                                     !.op = "calculate_aggregation_risk",
                                     !.sequence = sequence]]
    /\ UNCHANGED predictorVars

BeginGetHighRiskRegions(c, sequence, threshold) ==
    /\ calls[c].pc = "idle"
    /\ calls' = [calls EXCEPT ![c] =
                    [IdleCall EXCEPT !.pc = "extract",
                                     !.op = "get_high_risk_regions",
                                     !.sequence = sequence,
                                     !.threshold = threshold]]
    /\ UNCHANGED predictorVars

BeginGetColorMap(c, risk_scores) ==
    /\ calls[c].pc = "idle"
    /\ calls' = [calls EXCEPT ![c] =
                    [IdleCall EXCEPT !.pc = "colour",
                                     !.op = "get_color_map",
                                     !.risk_scores = risk_scores]]
    /\ UNCHANGED predictorVars

\* StepExtractFeatures looking codes up with dict.setdefault(aa, 0): a code the table
\* lacks is entered into the shared table
StepExtractFeaturesInserting(c) ==
    /\ calls[c].pc = "extract"
    /\ calls' = [calls EXCEPT ![c].pc = "combine",
                              ![c].features = extract_features(Self, calls[c].sequence)]
    /\ LET seq == upper(calls[c].sequence)
           unknown == {seq[k] : k \in 1..Len(seq)} \ DOMAIN hydrophobicity
       IN  hydrophobicity' = [aa \in DOMAIN hydrophobicity \cup unknown |->
                                 Get(hydrophobicity, aa)]
    /\ UNCHANGED <<charge, beta_propensity, aggregation_motifs, alpha_syn_sequence>>

\* features = self.extract_features(sequence)
StepExtractFeatures(c) ==
    /\ calls[c].pc = "extract"
    /\ calls' = [calls EXCEPT ![c].pc = "combine",
                              ![c].features = extract_features(Self, calls[c].sequence)]
    /\ UNCHANGED predictorVars

\* the loop over the positions, up to return risk_scores
StepCombine(c) ==
    /\ calls[c].pc = "combine"
    /\ LET raised == RiskRaises(calls[c].features, calls[c].sequence)
       IN  calls' = [calls EXCEPT
                        ![c].pc = IF calls[c].op = "get_high_risk_regions" /\ ~raised
                                     THEN "scan" ELSE "return",
                        ![c].risk_scores = RiskScores(calls[c].features, calls[c].sequence),
                        ![c].raised = raised]
    /\ UNCHANGED predictorVars

\* the scan of get_high_risk_regions over the scores it was returned
StepScan(c) ==
    /\ calls[c].pc = "scan"
    /\ calls' = [calls EXCEPT
                    ![c].pc = "return",
                    ![c].regions = ScanRegions(calls[c].risk_scores, calls[c].threshold,
                                               Len(calls[c].sequence))]
    /\ UNCHANGED predictorVars

StepColorMap(c) ==
    /\ calls[c].pc = "colour"
    /\ calls' = [calls EXCEPT ![c].pc = "return",
                              ![c].colors = get_color_map(calls[c].risk_scores)]
    /\ UNCHANGED predictorVars

Complete(c) ==
    /\ calls[c].pc = "return"
    /\ calls' = [calls EXCEPT ![c] = IdleCall]
    /\ UNCHANGED predictorVars

NextConc ==
    \E c \in Callers :
        \/ \E sequence \in ConcSequences : BeginCalculateAggregationRisk(c, sequence)
        \/ \E sequence \in ConcSequences, threshold \in ConcThresholds :
              BeginGetHighRiskRegions(c, sequence, threshold)
        \/ \E risk_scores \in ConcScoreLists : BeginGetColorMap(c, risk_scores)
        \/ StepExtractFeatures(c)
        \/ StepCombine(c)
        \/ StepScan(c)
        \/ StepColorMap(c)
        \/ Complete(c)

SpecConc == Init /\ [][NextConc]_vars

----------------------------------------------------------------------------
(* One caller scores a sequence; a second scores it with one residue replaced *)

\* the residues 40..60 of the reference sequence, around the sites of the known
\* substitutions (E46K, H50Q, G51D, A53T)
ReferenceWindow == SubSeq(AlphaSynSequence, 40, 60)

\* the sequences substituted: a motif at the start, a motif at the end, a motif one
\* residue short of complete, and the reference window
SubstitutionBases ==
    { <<"V", "L", "Y", "V", "G", "K", "K", "E", "K", "K", "E", "K", "K">>,
      <<"K", "E", "K", "K", "E", "K", "K", "E", "G", "A", "V", "V", "T">>,
      <<"E", "K", "K", "E", "K", "K", "T", "K", "A", "K", "K", "E", "K">>,
      ReferenceWindow }

\* the characters put in place of a residue
Replacements == {"A", "T", "E", "x", "U+00DF"}

\* the sequence with the character at position k replaced by aa: same length, other
\* positions untouched
Substitute(sequence, k, aa) == [sequence EXCEPT ![k + 1] = aa]

\* the caller scoring the substituted sequence
Variant == CHOOSE c \in Callers : c # Main

ScoreSubstituted(k, aa) ==
    /\ Returned(Main)
    /\ calls[Main].op = "calculate_aggregation_risk"
    /\ calls[Variant].pc = "idle"
    /\ k \in Range(0, Len(calls[Main].sequence))
    /\ LET sequence == Substitute(calls[Main].sequence, k, aa)
           features == extract_features(Self, sequence)
       IN  calls' = [calls EXCEPT ![Variant] =
                        [IdleCall EXCEPT !.pc = "return",
                                         !.op = "calculate_aggregation_risk",
                                         !.sequence = sequence,
                                         !.features = features,
                                         !.risk_scores = RiskScores(features, sequence),
                                         !.raised = RiskRaises(features, sequence)]]
    /\ UNCHANGED predictorVars

\* the callers take their results
ReturnBoth ==
    /\ Returned(Main)
    /\ calls' = [c \in Callers |-> IdleCall]
    /\ UNCHANGED predictorVars

NextSubst ==
    \/ \E sequence \in SubstitutionBases : CalculateAggregationRisk(sequence)
    \/ \E k \in Range(0, Len(calls[Main].sequence)), aa \in Replacements :
          ScoreSubstituted(k, aa)
    \/ ReturnBoth

SpecSubst == Init /\ [][NextSubst]_vars

----------------------------------------------------------------------------
(* Properties *)

\* the call of the single caller
Call == calls[Main]

\* the call has returned from an operation that scored Call.sequence
Scored ==
    /\ Returned(Main)
    /\ Call.op \in {"calculate_aggregation_risk", "get_high_risk_regions"}

\* the positions of a list
Positions(list) == Range(0, Len(list))

\* C1: calculate_aggregation_risk returns, without raising, exactly one score per
\* character of the sequence it was given, and every score lies in [0, 100].
C1_OneScorePerPositionInRange ==
    Scored =>
        /\ ~Call.raised
        /\ Len(Call.risk_scores) = Len(Call.sequence)
        /\ \A i \in Positions(Call.risk_scores) :
              0 <= At(Call.risk_scores, i) /\ At(Call.risk_scores, i) <= Real(100)

\* a sequence that upper-casing lengthens, scored, with a score held at 100
C1_Witness ==
    /\ Scored
    /\ Call.op = "calculate_aggregation_risk"
    /\ Len(Call.features.hydrophobicity) > Len(Call.sequence)
    /\ \E i \in Positions(Call.risk_scores) : At(Call.risk_scores, i) = Real(100)

\* the region k of a list of regions holds position i
InRegion(regions, k, i) == regions[k][1] <= i /\ i <= regions[k][2]

\* C2: the regions get_high_risk_regions returns are exactly the maximal runs of the
\* score list at or above the threshold: in ascending order with a gap between
\* neighbours, every position inside a region scores >= threshold, every position
\* scoring >= threshold lies in exactly one region; [10,70,80,50,65,20] at 60 gives
\* [(1,2),(4,4)].
C2_RegionsAreMaximalRuns ==
    /\ ScanRegions(<<Real(10), Real(70), Real(80), Real(50), Real(65), Real(20)>>,
                   Real(60), 6) = << <<1, 2>>, <<4, 4>> >>
    /\ (Returned(Main) /\ Call.op = "get_high_risk_regions") =>
          LET scores == Call.risk_scores
              regions == Call.regions
          IN  /\ ~Call.raised
              /\ scores = calculate_aggregation_risk(NewPredictor, Call.sequence)
              /\ \A k \in 1..Len(regions) :
                    /\ 0 <= regions[k][1]
                    /\ regions[k][1] <= regions[k][2]
                    /\ regions[k][2] <= Len(scores) - 1
                    /\ \A i \in regions[k][1]..regions[k][2] :
                          At(scores, i) >= Call.threshold
              /\ \A k \in 1..(Len(regions) - 1) : regions[k][2] + 1 < regions[k + 1][1]
              /\ \A i \in Positions(scores) :
                    At(scores, i) >= Call.threshold =>
                       Cardinality({k \in 1..Len(regions) : InRegion(regions, k, i)}) = 1

\* two regions or more, one of them holding a score equal to the threshold
C2_Witness ==
    /\ Returned(Main)
    /\ Call.op = "get_high_risk_regions"
    /\ Len(Call.regions) >= 2
    /\ \E i \in Positions(Call.risk_scores) : At(Call.risk_scores, i) = Call.threshold

\* the five buckets, lowest first: [lo, hi) and the colour; the last is closed at 100
Buckets ==
    << [name |-> "low",       lo |-> Real(0),  hi |-> Real(20),  color |-> "#00FF00"],
       [name |-> "moderate",  lo |-> Real(20), hi |-> Real(40),  color |-> "#80FF00"],
       [name |-> "elevated",  lo |-> Real(40), hi |-> Real(60),  color |-> "#FFFF00"],
       [name |-> "high",      lo |-> Real(60), hi |-> Real(80),  color |-> "#FF8000"],
       [name |-> "very-high", lo |-> Real(80), hi |-> Real(100), color |-> "#FF0000"] >>

\* the rank of the bucket holding a score of [0, 100]
BucketOf(score) ==
    CHOOSE b \in 1..Len(Buckets) :
        /\ Buckets[b].lo <= score
        /\ \/ score < Buckets[b].hi
           \/ b = Len(Buckets) /\ score = Buckets[b].hi

\* the rank of the bucket shown by a colour
RankOf(color) == CHOOSE b \in 1..Len(Buckets) : Buckets[b].color = color

\* C3: get_color_map returns one colour per score, the colour of the score's bucket
\* under the breakpoints 20, 40, 60, 80, and a larger score never gets a bucket of
\* lower rank.
C3_ColorsFollowBuckets ==
    (Returned(Main) /\ Call.op = "get_color_map" /\ ~Call.raised) =>
        /\ \A k \in 1..Len(Call.risk_scores) :
              0 <= Call.risk_scores[k] /\ Call.risk_scores[k] <= Real(100)
        /\ Len(Call.colors) = Len(Call.risk_scores)
        /\ \A k \in 1..Len(Call.colors) :
              Call.colors[k] = Buckets[BucketOf(Call.risk_scores[k])].color
        /\ \A k, l \in 1..Len(Call.colors) :
              Call.risk_scores[k] <= Call.risk_scores[l] =>
                 RankOf(Call.colors[k]) <= RankOf(Call.colors[l])

\* a score just below a breakpoint and a score on it, coloured differently
C3_Witness ==
    /\ Returned(Main)
    /\ Call.op = "get_color_map"
    /\ \E k, l \in 1..Len(Call.colors) :
          /\ Call.risk_scores[k] = Real(20) - 1
          /\ Call.risk_scores[l] = Real(20)
          /\ Call.colors[k] = "#00FF00"
          /\ Call.colors[l] = "#80FF00"

Clamp(x, lo, hi) == IF x < lo THEN lo ELSE IF x > hi THEN hi ELSE x

\* the weighted sum of the features of position i, before the clamp
WeightedSum(features, i) ==
      Max(0, At(features.hydrophobicity, i)) * 10
    + At(features.beta_propensity, i) * 15
    + Max(0, At(features.local_hydrophobicity, i)) * 8
    + Max(0, Real(3) - At(features.charge_clustering, i)) * 5
    + At(features.motif_score, i) * 25

\* C4: every score is the weighted sum of the position's features, clamped once,
\* as a sum, to [0, 100].
C4_ScoreIsClampedWeightedSum ==
    Scored =>
        LET features == extract_features(NewPredictor, Call.sequence)
        IN  /\ ~Call.raised
            /\ \A i \in Positions(Call.risk_scores) :
                  At(Call.risk_scores, i) = Clamp(WeightedSum(features, i), Real(0), Real(100))

\* a position whose terms are each within [0, 100] and whose sum is above 100, scored 100
C4_Witness ==
    /\ Scored
    /\ \E i \in Positions(Call.risk_scores) :
          /\ WeightedSum(Call.features, i) > Real(100)
          /\ At(Call.features.motif_score, i) * 25 <= Real(100)
          /\ At(Call.risk_scores, i) = Real(100)

\* the results a call of caller c returns when it runs alone on the predictor as
\* constructed
AloneRiskScores(c) == calculate_aggregation_risk(NewPredictor, calls[c].sequence)
AloneRegions(c) == get_high_risk_regions(NewPredictor, calls[c].sequence, calls[c].threshold)
AloneColors(c) == get_color_map(calls[c].risk_scores)

\* C5: no operation writes a field of the shared predictor, every call returns what
\* the same call returns when run alone, whatever the other callers do meanwhile, and
\* two calls with the same arguments return the same results.
C5_PureUnderInterleaving ==
    /\ Self = NewPredictor
    /\ \A c \in Callers :
          Returned(c) =>
             /\ ~calls[c].raised
             /\ calls[c].op = "calculate_aggregation_risk" =>
                   calls[c].risk_scores = AloneRiskScores(c)
             /\ calls[c].op = "get_high_risk_regions" =>
                   /\ calls[c].risk_scores = AloneRiskScores(c)
                   /\ calls[c].regions = AloneRegions(c)
             /\ calls[c].op = "get_color_map" =>
                   calls[c].colors = AloneColors(c)
    /\ \A c, d \in Callers :
          ( /\ Returned(c)
            /\ Returned(d)
            /\ calls[c].op = calls[d].op
            /\ calls[c].sequence = calls[d].sequence
            /\ calls[c].threshold = calls[d].threshold
            /\ calls[c].op = "get_color_map" => calls[c].risk_scores = calls[d].risk_scores )
          => /\ calls[c].risk_scores = calls[d].risk_scores
             /\ calls[c].regions = calls[d].regions
             /\ calls[c].colors = calls[d].colors

\* a caller has its regions while another, given another sequence, is between the
\* steps of its own call
C5_Witness ==
    \E c, d \in Callers :
        /\ c # d
        /\ Returned(c)
        /\ calls[c].op = "get_high_risk_regions"
        /\ calls[c].regions # <<>>
        /\ calls[d].pc = "scan"
        /\ calls[d].sequence # calls[c].sequence


\* motif occurs in seq at position j
Occurs(seq, motif, j) ==
    /\ 0 <= j
    /\ j + Len(motif) <= Len(seq)
    /\ \A k \in 1..Len(motif) : seq[j + k] = motif[k]

KTKE == <<"K", "T", "K", "E">>

\* the region shares a position with an occurrence of motif in seq
OverlapsOccurrence(region, seq, motif) ==
    \E j \in Positions(seq) :
        /\ Occurs(seq, motif, j)
        /\ region[1] <= j + Len(motif) - 1
        /\ j <= region[2]

\* the call is get_high_risk_regions(ReferencePrefix, 60), returned
PrefixCall ==
    /\ Returned(Main)
    /\ Call.op = "get_high_risk_regions"
    /\ Call.sequence = ReferencePrefix
    /\ Call.threshold = Real(60)

\* C6, as claimed: for the 63-residue reference prefix and threshold 60 the regions
\* are not empty and one of them overlaps an occurrence of KTKE.
C6_PrefixRegionOverlapsKTKE ==
    PrefixCall =>
        /\ Call.regions # <<>>
        /\ \E k \in 1..Len(Call.regions) :
              OverlapsOccurrence(Call.regions[k], Call.sequence, KTKE)

\* C6, amended: for the 63-residue reference prefix and threshold 60 the regions are
\* (2,2), (7,7), (14,16), (25,25), (36,39), (47,48), (51,52), (54,54), (62,62): not
\* empty, and none of them overlaps an occurrence of KTKE (31-34, 42-45, 57-60).
C6_PrefixRegionsMissKTKE ==
    PrefixCall =>
        /\ Call.regions # <<>>
        /\ Call.regions = << <<2, 2>>, <<7, 7>>, <<14, 16>>, <<25, 25>>, <<36, 39>>,
                             <<47, 48>>, <<51, 52>>, <<54, 54>>, <<62, 62>> >>
        /\ {j \in Positions(Call.sequence) : Occurs(Call.sequence, KTKE, j)} = {31, 42, 57}
        /\ \A k \in 1..Len(Call.regions) :
              ~OverlapsOccurrence(Call.regions[k], Call.sequence, KTKE)

\* the prefix has been cut into regions at 60, and every position of its KTKE
\* occurrences has a motif score above 0 and a risk below 60
C6_Witness ==
    /\ PrefixCall
    /\ \A j \in {31, 42, 57} : \A i \in j..(j + 3) :
          /\ At(Call.features.motif_score, i) > 0
          /\ At(Call.risk_scores, i) < Real(60)

\* C7: on the empty sequence extract_features returns six empty lists,
\* calculate_aggregation_risk returns [] and get_high_risk_regions returns [] at
\* every threshold, and get_color_map([]) returns [], none of them raising.
C7_EmptyInEmptyOut ==
    Returned(Main) =>
        /\ (Call.op = "extract_features" /\ Call.sequence = <<>>) =>
              /\ ~Call.raised
              /\ Call.features = NoFeatures
        /\ (Call.op = "calculate_aggregation_risk" /\ Call.sequence = <<>>) =>
              /\ ~Call.raised
              /\ Call.features = NoFeatures
              /\ Call.risk_scores = <<>>
        /\ (Call.op = "get_high_risk_regions" /\ Call.sequence = <<>>) =>
              /\ ~Call.raised
              /\ Call.risk_scores = <<>>
              /\ Call.regions = <<>>
        /\ (Call.op = "get_color_map" /\ Call.risk_scores = <<>>) =>
              /\ ~Call.raised
              /\ Call.colors = <<>>

\* get_high_risk_regions has returned for the empty sequence at the lowest threshold
C7_Witness ==
    /\ Returned(Main)
    /\ Call.op = "get_high_risk_regions"
    /\ Call.sequence = <<>>
    /\ Call.threshold = Real(0)
    /\ Call.features = NoFeatures
    /\ Call.regions = <<>>

\* the 20 recognized codes
Recognized == DOMAIN HydrophobicityTable

\* the value the claim gives a character: the table's for a recognized code and for
\* the lower case of one, 0 for every other character
NeutralValue(table, c) ==
    IF c \in Recognized THEN table[c]
    ELSE IF c \in DOMAIN LowerToUpper /\ LowerToUpper[c] \in Recognized
            THEN table[LowerToUpper[c]]
    ELSE 0

\* the window of position i in a sequence of n positions
ClippedWindow(n, i) == Max(0, i - 2) .. Min(n - 1, i + 2)

RECURSIVE SumOver(_, _)
SumOver(f, S) ==
    IF S = {} THEN 0
    ELSE LET x == CHOOSE y \in S : TRUE IN f[x] + SumOver(f, S \ {x})

\* C8, as claimed: no sequence is rejected, and a character that is not a recognized
\* code (nor the lower case of one) counts 0 for hydrophobicity, charge and beta
\* propensity at its position and in every window over it, a lower-case code counting
\* as its upper case.
C8_UnrecognizedCharactersAreNeutral ==
    (Returned(Main) /\ Call.op \in {"extract_features", "calculate_aggregation_risk",
                                    "get_high_risk_regions"}) =>
        LET n == Len(Call.sequence)
            hydro == [i \in Range(0, n) |->
                         NeutralValue(NewPredictor.hydrophobicity, At(Call.sequence, i))]
            chg == [i \in Range(0, n) |->
                       Abs(NeutralValue(NewPredictor.charge, At(Call.sequence, i)))]
        IN  /\ ~Call.raised
            /\ Call.features.hydrophobicity = [k \in 1..n |-> hydro[k - 1]]
            /\ Call.features.charge =
                  [k \in 1..n |-> NeutralValue(NewPredictor.charge, Call.sequence[k])]
            /\ Call.features.beta_propensity =
                  [k \in 1..n |-> NeutralValue(NewPredictor.beta_propensity, Call.sequence[k])]
            /\ Len(Call.features.local_hydrophobicity) = n
            /\ Len(Call.features.charge_clustering) = n
            /\ \A i \in Range(0, n) :
                  /\ At(Call.features.local_hydrophobicity, i) * Cardinality(ClippedWindow(n, i))
                        = SumOver(hydro, ClippedWindow(n, i))
                  /\ At(Call.features.charge_clustering, i) = SumOver(chg, ClippedWindow(n, i))

\* the occurrences <<m, j>>: motif number m of the list occurs at position j
OccurrencePairs(seq) ==
    {o \in (1..Len(AggregationMotifs)) \X Positions(seq) :
        Occurs(seq, AggregationMotifs[o[1]], o[2])}

CenterOf(o) == o[2] + (Len(AggregationMotifs[o[1]]) \div 2)

\* max(0, 5 - |i - center|) / 5
Contribution(i, o) ==
    LET d == Abs(i - CenterOf(o))
    IN  IF d >= 5 THEN 0 ELSE Real(5 - d) \div 5

\* C9: motif_score[i] is the sum, over every occurrence of every motif in the
\* upper-cased sequence, of max(0, 5 - |i - center|) / 5 with center = start +
\* floor(len(motif) / 2): 1.0 from an occurrence centred at i, 0 from one whose centre
\* is 5 or more away.
C9_MotifScoreIsSumOfDecays ==
    (Returned(Main) /\ Call.op \in {"extract_features", "calculate_aggregation_risk",
                                    "get_high_risk_regions"}) =>
        LET seq == upper(Call.sequence)
            occ == OccurrencePairs(seq)
        IN  /\ Len(Call.features.motif_score) = Len(seq)
            /\ \A i \in Positions(seq) :
                  /\ At(Call.features.motif_score, i)
                        = SumOver([o \in occ |-> Contribution(i, o)], occ)
                  /\ \A o \in occ :
                        /\ MotifDecay(i, o[2], AggregationMotifs[o[1]]) = Contribution(i, o)
                        /\ i = CenterOf(o) =>
                              MotifDecay(i, o[2], AggregationMotifs[o[1]]) = Real(1)
                        /\ Abs(i - CenterOf(o)) >= 5 =>
                              MotifDecay(i, o[2], AggregationMotifs[o[1]]) = 0

\* a position that two occurrences both add to, one of them centred on it, and a
\* position 5 or more from the centre of an occurrence
C9_Witness ==
    /\ Returned(Main)
    /\ Call.op = "extract_features"
    /\ LET seq == upper(Call.sequence)
           occ == OccurrencePairs(seq)
       IN  \E o1, o2 \in occ :
              /\ o1 # o2
              /\ \E i \in Positions(seq) :
                    /\ i = CenterOf(o1)
                    /\ Contribution(i, o2) > 0
                    /\ At(Call.features.motif_score, i) > Real(1)
              /\ \E i \in Positions(seq) :
                    /\ Abs(i - CenterOf(o1)) >= 5
                    /\ Contribution(i, o1) = 0

\* C10: local_hydrophobicity[i] is the mean of the hydrophobicity values over the
\* positions max(0, i-2) .. min(N-1, i+2) of the N positions looked up, nothing
\* padded or wrapped; at position 0 of three positions or more, over 0..2.
C10_WindowIsClipped ==
    (Returned(Main) /\ Call.op \in {"extract_features", "calculate_aggregation_risk",
                                    "get_high_risk_regions"}) =>
        LET hydro == Call.features.hydrophobicity
            local == Call.features.local_hydrophobicity
            n == Len(hydro)
            byPosition == [i \in Range(0, n) |-> At(hydro, i)]
        IN  /\ Len(local) = n
            /\ \A i \in Range(0, n) :
                  At(local, i) * Cardinality(ClippedWindow(n, i))
                     = SumOver(byPosition, ClippedWindow(n, i))
            /\ n >= 3 => At(local, 0) * 3 = At(hydro, 0) + At(hydro, 1) + At(hydro, 2)
            /\ \A i \in Range(0, n) :
                  /\ WindowStart(i) = Max(0, i - 2)
                  /\ WindowEnd(upper(Call.sequence), i) - 1 = Min(n - 1, i + 2)

\* a sequence of five positions or more whose first and last windows hold three
\* values that do not sum to 0, so that padding would change the mean
C10_Witness ==
    /\ Returned(Main)
    /\ Call.op = "extract_features"
    /\ LET hydro == Call.features.hydrophobicity
           n == Len(hydro)
       IN  /\ n >= 5
           /\ At(hydro, 0) + At(hydro, 1) + At(hydro, 2) # 0
           /\ At(Call.features.local_hydrophobicity, 0) * 3
                 = At(hydro, 0) + At(hydro, 1) + At(hydro, 2)
           /\ At(hydro, n - 1) + At(hydro, n - 2) + At(hydro, n - 3) # 0

\* the two sequences have the same length and differ at position k and nowhere else
DiffersOnlyAt(s, t, k) ==
    /\ Len(s) = Len(t)
    /\ k \in Positions(s)
    /\ \A i \in Positions(s) : (At(s, i) # At(t, i)) <=> (i = k)

\* both callers hold the scores of their sequences
BothScored ==
    /\ Returned(Main) /\ Returned(Variant)
    /\ calls[Main].op = "calculate_aggregation_risk"
    /\ calls[Variant].op = "calculate_aggregation_risk"

\* C11: for two sequences of equal length that differ only at position k,
\* calculate_aggregation_risk returns the same score at every position i with
\* |i - k| > 6.
C11_SubstitutionIsLocal ==
    BothScored =>
        \A k \in Positions(calls[Main].sequence) :
            DiffersOnlyAt(calls[Main].sequence, calls[Variant].sequence, k) =>
                \A i \in Positions(calls[Main].risk_scores) :
                    Abs(i - k) > 6 =>
                        At(calls[Variant].risk_scores, i) = At(calls[Main].risk_scores, i)

====
